---- MODULE Spec2Model ----
(***************************************************************************)
(* minidsp-devtools (devtools/src/main.rs): one run of the tool is one of  *)
(* three subcommands, decode, dump-bulk or codegen.  The module models a   *)
(* run as a state machine: the session file is a sequence of lines, the    *)
(* message stream is the lazy filter_map chain over it, and each action is *)
(* one poll of that chain or one statement of the subcommand.              *)
(***************************************************************************)
EXTENDS Integers, Sequences, FiniteSets, TLC

\* ------------------------------------------------------------------ bounds
MaxLines == 3      \* lines in the session file
MaxSkip == 3       \* largest --skip value tried
MaxRead == 2       \* bytes one read of tokio::io::copy moves at most
MaxFaults == 1     \* read faults injected in one run (SpecFault only)

\* ------------------------------------------------------------ small inputs
None == <<>>
Some(x) == <<x>>

Byte == {1, 2}
Payloads == UNION {[1..n -> Byte] : n \in 0..2}

\* First byte of an encoded command (minidsp::commands, not in src/).
OpBulkLoad == 4
OpOther == 5

\* One line of the session file: a direction marker and the message bytes.
\* "X" stands for a line recorder::Message::from_string rejects.
LineSet ==
    {[tag |-> "X", data |-> <<>>]}
    \cup {[tag |-> "R", data |-> <<>>], [tag |-> "R", data |-> <<OpBulkLoad, 1>>]}
    \cup {[tag |-> "S", data |-> <<>>], [tag |-> "S", data |-> <<OpOther>>]}
    \cup {[tag |-> "S", data |-> <<OpBulkLoad>> \o p] : p \in Payloads}

Sessions == UNION {[1..n -> LineSet] : n \in 0..MaxLines}

NoSkip == -1
SkipArgs == {NoSkip} \cup 0..MaxSkip

Min(a, b) == IF a <= b THEN a ELSE b

\* ------------------------------------------------- external collaborators
\* recorder::Message::from_string: Option<Message>
from_string(line) ==
    IF line.tag = "S" THEN Some([dir |-> "Sent", data |-> line.data])
    ELSE IF line.tag = "R" THEN Some([dir |-> "Received", data |-> line.data])
    ELSE None

\* Commands::from_bytes: the decoded command, or None when the bytes do not
\* decode.
from_bytes(data) ==
    IF data = <<>> THEN None
    ELSE IF Head(data) = OpBulkLoad
         THEN Some([cmd |-> "BulkLoad", payload |-> Tail(data)])
    ELSE IF Head(data) = OpOther
         THEN Some([cmd |-> "Other", payload |-> <<>>])
    ELSE None

\* recorder::decode_sent_commands: only Sent messages are decoded.
decode_sent_commands(msg) ==
    IF msg.dir = "Sent" THEN from_bytes(msg.data) ELSE None

\* ------------------------------------------------------------------ state
VARIABLES
    mode,        \* the subcommand of this run
    pc,          \* position of the run in main / decode / dump / codegen_main
    result,      \* "running", "ok" (main returned Ok) or the error returned
    lines,       \* content of the session file
    pos,         \* lines the framed reader has consumed
    paused,      \* the framed reader reports end of stream on its next poll
    faults,      \* read faults so far
    delivered,   \* line numbers of the messages the message stream yielded
    force_kind,  \* decode: --force-kind
    decoder,     \* decode: [news, name_map]
    n_sent,      \* decode: counter of Sent messages
    n_recv,      \* decode: counter of Received messages
    log,         \* decode: what was printed and fed, in order
    skip,        \* dump: --skip, NoSkip when absent
    limit,       \* dump: bytes the Take adapter still lets through
    chunk,       \* dump: unread rest of StreamReader's current payload
    out,         \* dump: the destination file, [exists, data]
    outInit,     \* dump: the destination file as the run found it
    discarded,   \* dump: bytes copied into the sink
    contrib,     \* dump: line numbers whose payload entered the reader
    skipEndPos,  \* dump: pos when the discard phase ended, -1 before
    touched,     \* dump: files the run has created, truncated or written
    idx,         \* codegen: next entry of the catalog
    gdisk,       \* codegen: files of the output directory
    gdiskInit,   \* codegen: the output directory as the run found it
    wrote,       \* codegen: models whose file was written, in order
    failedAt     \* codegen: catalog index whose gen_write failed, 0 if none

srcVars == <<lines, pos, paused, faults, delivered>>
decVars == <<force_kind, decoder, n_sent, n_recv, log>>
dumpVars ==
    <<skip, limit, chunk, out, outInit, discarded, contrib, skipEndPos, touched>>
genVars == <<idx, gdisk, gdiskInit, wrote, failedAt>>
vars == <<mode, pc, result, srcVars, decVars, dumpVars, genVars>>

\* ------------------------------------------------------- codegen catalog
\* Mutant of Catalog: the commented-out call for m2x4 is made.
Catalog_WithM2x4 ==
    <<"m2x4hd", "msharc4x8", "m4x10hd", "shd", "ddrc24", "nanodigi2x8",
      "ddrc88bm", "c8x12v2", "m2x4", "m10x10hd">>

\* The gen_write calls of codegen_main, in order (m2x4 is commented out).
Catalog ==
    <<"m2x4hd", "msharc4x8", "m4x10hd", "shd", "ddrc24", "nanodigi2x8",
      "ddrc88bm", "c8x12v2", "m10x10hd">>

\* The targets imported from the codegen module.
Targets == {Catalog[i] : i \in 1..Len(Catalog)} \cup {"m2x4"}

\* Target::filename, one fixed name per model (codegen module, not in src/).
filename(T) == <<T, ".rs">>

Files == {filename(T) : T \in Targets}

Absent == [exists |-> FALSE, data |-> <<>>]
File(d) == [exists |-> TRUE, data |-> d]

\* The device kinds --force-kind accepts and device::by_kind(kind).symbols.
DeviceKinds == {"m2x4hd"}
by_kind_symbols(kind) == <<kind, "symbols">>

\* ------------------------------------------------------------------- Init
Init ==
    /\ mode \in {"decode", "dump", "codegen"}
    /\ pc = IF mode = "codegen" THEN "gen" ELSE "open"
    /\ result = "running"
    /\ lines \in IF mode = "codegen" THEN {<<>>} ELSE Sessions
    /\ pos = 0
    /\ paused = FALSE
    /\ faults = 0
    /\ delivered = <<>>
    /\ force_kind \in IF mode = "decode"
                      THEN {None} \cup {Some(k) : k \in DeviceKinds}
                      ELSE {None}
    /\ decoder = [news |-> 0, sets |-> 0, name_map |-> None]
    /\ n_sent = 0
    /\ n_recv = 0
    /\ log = <<>>
    /\ skip \in IF mode = "dump" THEN SkipArgs ELSE {NoSkip}
    /\ limit = 0
    /\ chunk = <<>>
    /\ out \in IF mode = "dump" THEN {Absent, File(<<2, 1>>)} ELSE {Absent}
    /\ outInit = out
    /\ discarded = <<>>
    /\ contrib = <<>>
    /\ skipEndPos = -1
    /\ touched = {}
    /\ idx = 1
    /\ gdisk \in IF mode = "codegen"
                 THEN {[f \in Files |-> Absent], [f \in Files |-> File(<<"old">>)]}
                 ELSE {[f \in Files |-> Absent]}
    /\ gdiskInit = gdisk
    /\ wrote = <<>>
    /\ failedAt = 0

\* ------------------------------------------------------------------- main
\* SubCommand::Decode: File::open(input).await?
MainDecodeOpen ==
    /\ mode = "decode" /\ pc = "open"
    /\ \E ok \in BOOLEAN :
         /\ pc' = IF ok THEN "dec_new" ELSE "done"
         /\ result' = IF ok THEN result ELSE "err:open"
    /\ UNCHANGED <<mode, srcVars, decVars, dumpVars, genVars>>

\* Mutant of MainDumpOpen: the destination is created before the input is
\* opened.
MainDumpOpen_CreatesFirst ==
    /\ mode = "dump" /\ pc = "open"
    /\ \E ok \in BOOLEAN :
         /\ pc' = IF ok THEN "create" ELSE "done"
         /\ result' = IF ok THEN result ELSE "err:open"
    /\ out' = File(<<>>)
    /\ touched' = touched \cup {"output"}
    /\ UNCHANGED <<mode, srcVars, decVars, skip, limit, chunk, outInit, discarded,
                   contrib, skipEndPos, genVars>>

\* SubCommand::DumpBulk: File::open(input).await?
MainDumpOpen ==
    /\ mode = "dump" /\ pc = "open"
    /\ \E ok \in BOOLEAN :
         /\ pc' = IF ok THEN "create" ELSE "done"
         /\ result' = IF ok THEN result ELSE "err:open"
    /\ UNCHANGED <<mode, srcVars, decVars, dumpVars, genVars>>

\* Mutant of MessageOf: a line that does not parse becomes an empty message.
MessageOf_KeepMalformed(line) ==
    IF from_string(line) = None
    THEN Some([dir |-> "Received", data |-> <<>>])
    ELSE from_string(line)

\* The closure of framed.filter_map in main: a line that does not parse
\* yields no message.
MessageOf(line) == from_string(line)

\* The framed reader has nothing more to yield on this poll: end of file, or
\* the poll after a read fault when the reader ends the stream on errors.
SourceEnded == pos = Len(lines) \/ paused

\* ----------------------------------------------------------------- decode
PrintEv(d, n) == [ev |-> "print", dir |-> d, n |-> n, data |-> <<>>]
FeedEv(d, data) == [ev |-> "feed", dir |-> d, n |-> 0, data |-> data]

\* i32 += 1 (release build: wraps)
Inc32(n) == IF n = 2147483647 THEN -2147483647 - 1 ELSE n + 1

\* Mutant of DecodeNew: set_name_map is called whether or not a kind is given.
DecodeNew_AlwaysSetsNames ==
    /\ mode = "decode" /\ pc = "dec_new"
    /\ decoder' = [news |-> decoder.news + 1, sets |-> decoder.sets + 1,
                   name_map |-> Some(by_kind_symbols("m2x4hd"))]
    /\ n_recv' = 0
    /\ n_sent' = 0
    /\ log' = <<>>
    /\ pc' = "dec_loop"
    /\ UNCHANGED <<mode, result, srcVars, force_kind, dumpVars, genVars>>

\* let mut decoder = Decoder::new(..); if let Some(kind) { set_name_map }
DecodeNew ==
    /\ mode = "decode" /\ pc = "dec_new"
    /\ decoder' =
         IF force_kind # None
         THEN [news |-> decoder.news + 1, sets |-> decoder.sets + 1,
               name_map |-> Some(by_kind_symbols(force_kind[1]))]
         ELSE [decoder EXCEPT !.news = @ + 1]
    /\ n_recv' = 0
    /\ n_sent' = 0
    /\ log' = <<>>
    /\ pc' = "dec_loop"
    /\ UNCHANGED <<mode, result, srcVars, force_kind, dumpVars, genVars>>

\* Mutant of DecodeSent: a message that does not decode is skipped.
DecodeSent_DropUndecodable(data) ==
    IF from_bytes(data) = None
    THEN UNCHANGED <<n_sent, n_recv, log>>
    ELSE /\ n_sent' = Inc32(n_sent)
         /\ log' = log \o <<PrintEv("Sent", n_sent'), FeedEv("Sent", data)>>
         /\ n_recv' = n_recv

\* Mutant of DecodeSent: the message is fed before its number is printed.
DecodeSent_FeedFirst(data) ==
    /\ n_sent' = Inc32(n_sent)
    /\ log' = log \o <<FeedEv("Sent", data), PrintEv("Sent", n_sent')>>
    /\ n_recv' = n_recv

\* arm recorder::Message::Sent(data)
DecodeSent(data) ==
    /\ n_sent' = Inc32(n_sent)
    /\ log' = log \o <<PrintEv("Sent", n_sent'), FeedEv("Sent", data)>>
    /\ n_recv' = n_recv

\* Mutant of DecodeReceived: both arms count in n_sent.
DecodeReceived_SharedCounter(data) ==
    /\ n_sent' = Inc32(n_sent)
    /\ log' = log \o <<PrintEv("Received", n_sent'), FeedEv("Received", data)>>
    /\ n_recv' = n_recv

\* arm recorder::Message::Received(data)
DecodeReceived(data) ==
    /\ n_recv' = Inc32(n_recv)
    /\ log' = log \o <<PrintEv("Received", n_recv'), FeedEv("Received", data)>>
    /\ n_sent' = n_sent

\* One line through framed.filter_map(from_string) and the loop body.
DecodeNext ==
    /\ mode = "decode" /\ pc = "dec_loop"
    /\ ~SourceEnded
    /\ LET line == lines[pos + 1]
           msg == MessageOf(line)
       IN /\ pos' = pos + 1
          /\ IF msg = None
             THEN UNCHANGED <<delivered, n_sent, n_recv, log>>
             ELSE /\ delivered' = Append(delivered, pos + 1)
                  /\ IF msg[1].dir = "Sent"
                     THEN DecodeSent(msg[1].data)
                     ELSE DecodeReceived(msg[1].data)
    /\ UNCHANGED <<mode, pc, result, lines, paused, faults, force_kind, decoder,
                   dumpVars, genVars>>

\* Mutant of DecodeEnd: the end of the file is reported as an error.
DecodeEnd_EofIsError ==
    /\ mode = "decode" /\ pc = "dec_loop"
    /\ pos = Len(lines) \/ paused
    /\ paused' = FALSE
    /\ pc' = "done"
    /\ result' = "err:eof"
    /\ UNCHANGED <<mode, lines, pos, faults, delivered, decVars, dumpVars, genVars>>

\* framed.next() yields None: the loop ends, decode and main return Ok(()).
DecodeEnd ==
    /\ mode = "decode" /\ pc = "dec_loop"
    /\ SourceEnded
    /\ paused' = FALSE
    /\ pc' = "done"
    /\ result' = "ok"
    /\ UNCHANGED <<mode, lines, pos, faults, delivered, decVars, dumpVars, genVars>>

\* ------------------------------------------------------------------- dump
\* Mutant of BulkPayload: the payload of every decoded command is kept.
BulkPayload_AnyCommand(cmd) == Some(cmd.payload)

\* The closure of the second filter_map: keep the payload of BulkLoad only.
BulkPayload(cmd) ==
    IF cmd.cmd = "BulkLoad" THEN Some(cmd.payload) ELSE None

\* framed.filter_map(decode_sent_commands).filter_map(..) on one message.
KeepBulk(msg) ==
    LET c == decode_sent_commands(msg)
    IN IF c = None THEN None ELSE BulkPayload(c[1])

\* Bytes one read of reader.take(skip) returns from the current payload.
TakeLen(buf, lim) == Min(Min(Len(buf), lim), MaxRead)

\* Bytes one read of the reader itself returns from the current payload.
ReadLen(buf) == Min(Len(buf), MaxRead)

\* Mutant of create: the file is opened without being truncated.
create_NoTruncate(f) == File(f.data)

\* File::create(output): the file exists and is empty, whatever it held.
create(f) == File(<<>>)

\* Mutant of TakeAtEof: an empty buffer alone counts as end of input.
TakeAtEof_EmptyBuffer(lim, buf, ended) == lim = 0 \/ buf = <<>>

\* tokio::io::copy ends when a read returns no byte: Take's limit is used up,
\* or StreamReader holds no bytes and its stream has ended.
TakeAtEof(lim, buf, ended) == lim = 0 \/ (buf = <<>> /\ ended)

\* Mutant of AfterCreate: the skip argument is ignored.
AfterCreate_IgnoreSkip(sk) == "copy"

\* Where dump goes after File::create: `if let Some(skip) = skip`.
AfterCreate(sk) == IF sk # NoSkip THEN "skip" ELSE "copy"

\* StreamReader::new(f); File::create(output).await?; the skip test.
DumpCreate ==
    /\ mode = "dump" /\ pc = "create"
    /\ \E ok \in BOOLEAN :
         IF ok
         THEN /\ out' = create(out)
              /\ touched' = touched \cup {"output"}
              /\ pc' = AfterCreate(skip)
              /\ limit' = IF skip # NoSkip THEN skip ELSE 0
              /\ result' = result
         ELSE /\ pc' = "done"
              /\ result' = "err:create"
              /\ UNCHANGED <<out, limit, touched>>
    /\ UNCHANGED <<mode, srcVars, decVars, skip, chunk, outInit, discarded,
                   contrib, skipEndPos, genVars>>

\* StreamReader has no bytes left and polls the stream: one line goes
\* through from_string and the two filters.  The Take adapter does not poll
\* once its limit is used up.
DumpPull ==
    /\ mode = "dump" /\ pc \in {"skip", "copy"}
    /\ pc = "skip" => limit > 0
    /\ chunk = <<>>
    /\ ~SourceEnded
    /\ LET line == lines[pos + 1]
           msg == MessageOf(line)
           item == IF msg = None THEN None ELSE KeepBulk(msg[1])
       IN /\ pos' = pos + 1
          /\ delivered' = IF msg = None THEN delivered
                          ELSE Append(delivered, pos + 1)
          /\ contrib' = IF item = None THEN contrib ELSE Append(contrib, pos + 1)
          /\ chunk' = IF item = None THEN <<>> ELSE item[1]
    /\ UNCHANGED <<mode, pc, result, lines, paused, faults, decVars, skip, limit,
                   out, outInit, discarded, skipEndPos, touched, genVars>>

\* Mutant of DumpSkipBytes: a payload the skip reaches into is dropped whole.
DumpSkipBytes_WholePayload ==
    /\ mode = "dump" /\ pc = "skip"
    /\ limit > 0 /\ chunk # <<>>
    /\ discarded' = discarded \o chunk
    /\ chunk' = <<>>
    /\ limit' = limit - Min(Len(chunk), limit)
    /\ UNCHANGED <<mode, pc, result, srcVars, decVars, skip, out, outInit,
                   contrib, skipEndPos, touched, genVars>>

\* tokio::io::copy(reader.take(skip), sink): one read and its write.
DumpSkipBytes ==
    /\ mode = "dump" /\ pc = "skip"
    /\ limit > 0 /\ chunk # <<>>
    /\ LET n == TakeLen(chunk, limit)
       IN /\ discarded' = discarded \o SubSeq(chunk, 1, n)
          /\ chunk' = SubSeq(chunk, n + 1, Len(chunk))
          /\ limit' = limit - n
    /\ UNCHANGED <<mode, pc, result, srcVars, decVars, skip, out, outInit,
                   contrib, skipEndPos, touched, genVars>>

\* The first copy sees end of input: the limit is used up, or the stream
\* has ended.
DumpSkipEnd ==
    /\ mode = "dump" /\ pc = "skip"
    /\ TakeAtEof(limit, chunk, SourceEnded)
    /\ paused' = IF limit = 0 THEN paused ELSE FALSE
    /\ skipEndPos' = pos
    /\ pc' = "copy"
    /\ UNCHANGED <<mode, result, lines, pos, faults, delivered, decVars, skip,
                   limit, chunk, out, outInit, discarded, contrib, touched,
                   genVars>>

\* tokio::io::copy(reader, output): one read and its write, which may fail.
DumpCopyBytes ==
    /\ mode = "dump" /\ pc = "copy"
    /\ chunk # <<>>
    /\ \E ok \in BOOLEAN :
         IF ok
         THEN LET n == ReadLen(chunk)
              IN /\ out' = File(out.data \o SubSeq(chunk, 1, n))
                 /\ touched' = touched \cup {"output"}
                 /\ chunk' = SubSeq(chunk, n + 1, Len(chunk))
                 /\ UNCHANGED <<pc, result>>
         ELSE /\ pc' = "done"
              /\ result' = "err:write"
              /\ UNCHANGED <<out, chunk, touched>>
    /\ UNCHANGED <<mode, srcVars, decVars, skip, limit, outInit, discarded,
                   contrib, skipEndPos, genVars>>

\* The second copy sees end of input: dump and main return Ok(()).
DumpCopyEnd ==
    /\ mode = "dump" /\ pc = "copy"
    /\ chunk = <<>> /\ SourceEnded
    /\ paused' = FALSE
    /\ pc' = "done"
    /\ result' = "ok"
    /\ UNCHANGED <<mode, lines, pos, faults, delivered, decVars, dumpVars, genVars>>

\* ---------------------------------------------------------------- codegen
\* The three lines of the literal gen prepends (the back quotes around the
\* command name are left out: a TLA+ string cannot hold them).
DisclaimerHeader ==
    <<"//", "// This file is generated by minidsp-devtools codegen. DO NOT EDIT.",
      "//">>

\* Target::symbols, Target::device and generate_static_config(..).to_string()
\* (codegen module, not in src/): a text fixed by the model's two inputs.
symbols(T) == <<"symbols", T>>
device(T) == <<"device", T>>
generate_static_config(syms, dev) == syms \o dev

\* Mutant of gen: the header is put after the serialization.
gen_HeaderLast(T) ==
    generate_static_config(symbols(T), device(T)) \o DisclaimerHeader

gen(T) == DisclaimerHeader \o generate_static_config(symbols(T), device(T))

\* Mutant of gen_write_ok: the text is appended to what the file held.
gen_write_ok_Append(disk, T) ==
    [disk EXCEPT ![filename(T)] = File(@.data \o gen(T))]

\* std::fs::write(output.join(T::filename()), gen::<T>()) that succeeds.
gen_write_ok(disk, T) == [disk EXCEPT ![filename(T)] = File(gen(T))]

\* Mutant of gen_write_err: a failed write clears the output directory.
gen_write_err_Cleanup(disk, T, opened) == [f \in Files |-> Absent]

\* std::fs::write that fails: before the file is opened, or after it was
\* created or truncated.
gen_write_err(disk, T, opened) ==
    IF opened THEN [disk EXCEPT ![filename(T)] = File(<<>>)] ELSE disk

\* Mutant of TargetAt: the calls are made in the reverse order.
TargetAt_Reversed(i) == Catalog[Len(Catalog) + 1 - i]

\* The target of the i-th gen_write call of codegen_main.
TargetAt(i) == Catalog[i]

\* Mutant of GenWrite: the error of a gen_write is kept for the end and the
\* remaining models are still written.
GenWrite_KeepGoing ==
    /\ mode = "codegen" /\ pc = "gen"
    /\ idx <= Len(Catalog)
    /\ LET T == TargetAt(idx)
       IN \/ /\ gdisk' = gen_write_ok(gdisk, T)
             /\ wrote' = Append(wrote, T)
             /\ idx' = idx + 1
             /\ UNCHANGED <<pc, result, failedAt>>
          \/ /\ failedAt = 0
             /\ \E opened \in BOOLEAN : gdisk' = gen_write_err(gdisk, T, opened)
             /\ failedAt' = idx
             /\ idx' = idx + 1
             /\ UNCHANGED <<pc, result, wrote>>
    /\ UNCHANGED <<mode, srcVars, decVars, dumpVars, gdiskInit>>

\* One `gen_write::<T>(&output)?;` of codegen_main.
GenWrite ==
    /\ mode = "codegen" /\ pc = "gen"
    /\ idx <= Len(Catalog)
    /\ LET T == TargetAt(idx)
       IN \/ /\ gdisk' = gen_write_ok(gdisk, T)
             /\ wrote' = Append(wrote, T)
             /\ idx' = idx + 1
             /\ UNCHANGED <<pc, result, failedAt>>
          \/ /\ \E opened \in BOOLEAN : gdisk' = gen_write_err(gdisk, T, opened)
             /\ failedAt' = idx
             /\ pc' = "done"
             /\ result' = "err:gen_write"
             /\ UNCHANGED <<idx, wrote>>
    /\ UNCHANGED <<mode, srcVars, decVars, dumpVars, gdiskInit>>

\* The final Ok(()) of codegen_main.
CodegenEnd ==
    /\ mode = "codegen" /\ pc = "gen"
    /\ idx = Len(Catalog) + 1
    /\ pc' = "done"
    /\ result' = "ok"
    /\ UNCHANGED <<mode, srcVars, decVars, dumpVars, genVars>>

\* ------------------------------------------------------------ read faults
\* A poll of the framed reader fails: the item is Err, `x.ok()?` turns it
\* into None and filter_map drops it.  No line is consumed.  Depending on the
\* tokio-util release the reader then goes on reading or reports end of
\* stream on the next poll.
ReadFault ==
    /\ \/ mode = "decode" /\ pc = "dec_loop"
       \/ mode = "dump" /\ pc \in {"skip", "copy"} /\ chunk = <<>>
          /\ (pc = "skip" => limit > 0)
    /\ ~paused
    /\ faults < MaxFaults
    /\ faults' = faults + 1
    /\ paused' \in BOOLEAN
    /\ UNCHANGED <<mode, pc, result, lines, pos, delivered, decVars, dumpVars,
                   genVars>>

\* --------------------------------------------------------- specifications
Next ==
    \/ MainDecodeOpen
    \/ MainDumpOpen
    \/ DecodeNew
    \/ DecodeNext
    \/ DecodeEnd
    \/ DumpCreate
    \/ DumpPull
    \/ DumpSkipBytes
    \/ DumpSkipEnd
    \/ DumpCopyBytes
    \/ DumpCopyEnd
    \/ GenWrite
    \/ CodegenEnd

\* Runs in which every read of the session file succeeds.
Spec == Init /\ [][Next]_vars

\* The line shapes that matter for how a run ends: unparsable, Received,
\* Sent non-bulk, Sent bulk with no, one and two payload bytes.
LiveLineSet ==
    {[tag |-> "X", data |-> <<>>], [tag |-> "R", data |-> <<>>],
     [tag |-> "S", data |-> <<OpOther>>], [tag |-> "S", data |-> <<OpBulkLoad>>],
     [tag |-> "S", data |-> <<OpBulkLoad, 1>>],
     [tag |-> "S", data |-> <<OpBulkLoad, 1, 2>>]}

InitLive == Init /\ \A i \in 1..Len(lines) : lines[i] \in LiveLineSet

\* The run is one task driven to completion by the runtime: a step that can
\* be taken is taken.
SpecLive == InitLive /\ [][Next]_vars /\ WF_vars(Next)

NextFault == Next \/ ReadFault

\* Runs in which reads of the session file may fail.
SpecFault == Init /\ [][NextFault]_vars

\* ----------------------------------------------- vocabulary of the claims
\* The session as the claims speak of it, computed from the lines alone.
IsMessage(line) == from_string(line) # None

IsSentBulk(line) ==
    /\ IsMessage(line)
    /\ from_string(line)[1].dir = "Sent"
    /\ from_bytes(from_string(line)[1].data) # None
    /\ from_bytes(from_string(line)[1].data)[1].cmd = "BulkLoad"

PayloadOf(line) == from_bytes(from_string(line)[1].data)[1].payload

\* Line numbers 1..n, ascending, of the lines that satisfy Test.
Picked(Test(_), n) ==
    SelectSeq([i \in 1..n |-> i], LAMBDA i : Test(lines[i]))

\* Concatenation of the payloads of the lines numbered in ix, in that order.
RECURSIVE Cat(_)
Cat(ix) ==
    IF ix = <<>> THEN <<>> ELSE PayloadOf(lines[Head(ix)]) \o Cat(Tail(ix))

\* P of the claims: the bulk payloads of the whole session, in file order.
BulkStream == Cat(Picked(IsSentBulk, Len(lines)))

DropFirst(s, k) == SubSeq(s, k + 1, Len(s))

DumpOk == mode = "dump" /\ pc = "done" /\ result = "ok"

\* The destination file was created in this run.
Created ==
    /\ mode = "dump"
    /\ pc \in {"skip", "copy", "done"}
    /\ result \notin {"err:open", "err:create"}

\* ------------------------------------------------------------------ claims
\* C1: when dump finishes, the destination file holds the concatenation P of
\* the bulk payloads of the Sent messages, in file order, without its first
\* K bytes when a skip K <= Len(P) is given, and P itself when none is given.
C1_DumpWritesSuffix ==
    DumpOk =>
        /\ out.exists
        /\ skip = NoSkip => out.data = BulkStream
        /\ (skip # NoSkip /\ skip <= Len(BulkStream))
               => out.data = DropFirst(BulkStream, skip)

\* C1 witness: two bulk payloads around a Received message, skip 1.
C1_Witness ==
    /\ DumpOk
    /\ skip = 1
    /\ Len(lines) = 3
    /\ lines[2].tag = "R"
    /\ contrib = <<1, 3>>
    /\ BulkStream = <<1, 2, 2, 1>>
    /\ out.data = <<2, 2, 1>>

\* C2: with a skip larger than the number of bulk payload bytes, the discard
\* phase consumes the whole stream, nothing is written, the destination file
\* is empty and a finished dump has returned success.
C2_SkipBeyondEnd ==
    (Created /\ skip # NoSkip /\ skip > Len(BulkStream)) =>
        /\ out = File(<<>>)
        /\ pc \in {"copy", "done"} =>
               /\ skipEndPos = Len(lines)
               /\ discarded = BulkStream
               /\ chunk = <<>>
        /\ pc = "done" => result = "ok"

\* C2 witness: two payload bytes in two messages, skip 3.
C2_Witness ==
    /\ DumpOk
    /\ skip = 3
    /\ Len(contrib) = 2
    /\ discarded = <<1, 2>>
    /\ out = File(<<>>)
    /\ outInit = File(<<2, 1>>)

\* The print events of one direction, in the order they were printed.
PrintsOf(d) == SelectSeq(log, LAMBDA e : e.ev = "print" /\ e.dir = d)

IsSent(line) == IsMessage(line) /\ from_string(line)[1].dir = "Sent"
IsReceived(line) == IsMessage(line) /\ from_string(line)[1].dir = "Received"

\* C3: after any prefix of the session, the i-th Sent message was printed
\* with number i and the j-th Received message with number j; each counter
\* counts the messages of its own direction only.
C3_CountersPerDirection ==
    mode = "decode" =>
        /\ Len(PrintsOf("Sent")) = Len(Picked(IsSent, pos))
        /\ Len(PrintsOf("Received")) = Len(Picked(IsReceived, pos))
        /\ \A i \in 1..Len(PrintsOf("Sent")) : PrintsOf("Sent")[i].n = i
        /\ \A j \in 1..Len(PrintsOf("Received")) : PrintsOf("Received")[j].n = j
        /\ n_sent = Len(PrintsOf("Sent"))
        /\ n_recv = Len(PrintsOf("Received"))

\* C3 witness: Sent, Received, Sent are printed as 1, 1, 2.
C3_Witness ==
    /\ mode = "decode" /\ pc = "done" /\ result = "ok"
    /\ Len(log) = 6
    /\ log[1] = PrintEv("Sent", 1)
    /\ log[3] = PrintEv("Received", 1)
    /\ log[5] = PrintEv("Sent", 2)

NoBulk == Picked(IsSentBulk, Len(lines)) = <<>>

\* C4: for a session without a Sent bulk command, once the destination file
\* is created it exists and is empty for the rest of the run, whatever it
\* held before and whatever the skip, and the run ends in success.
C4_NoBulkEmptyFile ==
    (Created /\ NoBulk) =>
        /\ out = File(<<>>)
        /\ pc = "done" => result = "ok"

\* C4 witness: a session of non-bulk messages, a skip, a destination file
\* that held bytes.
C4_Witness ==
    /\ DumpOk /\ NoBulk
    /\ Len(lines) = 3
    /\ IsSent(lines[1]) /\ IsReceived(lines[2])
    /\ skip = 2
    /\ outInit = File(<<2, 1>>)
    /\ out = File(<<>>)

\* C5: the payloads that entered the byte stream are those of the Sent bulk
\* messages read so far, and no others, in file order; the bytes discarded,
\* written and still buffered are their concatenation.
C5_OnlySentBulkInOrder ==
    mode = "dump" =>
        /\ contrib = Picked(IsSentBulk, pos)
        /\ Created => discarded \o out.data \o chunk = Cat(contrib)

\* C5 witness: a Received message with bulk bytes and a Sent non-bulk
\* command come before the one Sent bulk command.
C5_Witness ==
    /\ DumpOk
    /\ Len(lines) = 3
    /\ IsReceived(lines[1]) /\ IsSent(lines[2]) /\ IsSentBulk(lines[3])
    /\ lines[2].data # <<>>
    /\ contrib = <<3>>
    /\ out.data = <<1, 2>>

Undecodable(line) ==
    IsMessage(line) /\ from_bytes(from_string(line)[1].data) = None

\* C6: a line that does not parse is left out and nothing else happens: the
\* messages delivered so far are exactly the parsable lines read so far, in
\* file order; in decode every delivered message, and nothing else, took a
\* counter value and two log entries; and a run that ended before the last
\* line ended on a failure to open, create or write, never on a line.
C6_MalformedLinesOmitted ==
    /\ delivered = Picked(IsMessage, pos)
    /\ mode = "decode" =>
           /\ n_sent + n_recv = Len(Picked(IsMessage, pos))
           /\ Len(log) = 2 * Len(Picked(IsMessage, pos))
    /\ (pc = "done" /\ pos < Len(lines))
           => result \in {"err:open", "err:create", "err:write"}

\* C6 witness: decode of Sent, unparsable line, Sent: the third line is
\* printed as 2.
C6_Witness ==
    /\ mode = "decode" /\ pc = "done" /\ result = "ok"
    /\ Len(lines) = 3
    /\ IsSent(lines[1]) /\ ~IsMessage(lines[2]) /\ IsSent(lines[3])
    /\ delivered = <<1, 3>>
    /\ log[3] = PrintEv("Sent", 2)

\* C7 (as the specification states it): once a read of the session file has
\* failed, the run does not end in success.
C7_ReadFaultIsFatal ==
    (faults > 0 /\ pc = "done") => result # "ok"

\* C8: in decode a message whose bytes do not decode still takes the next
\* counter value of its direction, is printed and is fed; in dump it never
\* contributes a payload.
C8_UndecodableFedNotDumped ==
    \A i \in 1..pos :
        Undecodable(lines[i]) =>
            LET m == from_string(lines[i])[1]
                k == Len(Picked(IsMessage, i))
                Same(line) == IsMessage(line) /\ from_string(line)[1].dir = m.dir
            IN /\ mode = "decode" =>
                      /\ Len(log) >= 2 * k
                      /\ log[2 * k - 1] = PrintEv(m.dir, Len(Picked(Same, i)))
                      /\ log[2 * k] = FeedEv(m.dir, m.data)
               /\ mode = "dump" => \A c \in 1..Len(contrib) : contrib[c] # i

\* C8 witness: decode of a Sent command, then a Sent message that does not
\* decode, printed as 2 and fed.
C8_Witness ==
    /\ mode = "decode" /\ pc = "done" /\ result = "ok"
    /\ Len(lines) = 2
    /\ lines[1] = [tag |-> "S", data |-> <<OpOther>>]
    /\ Undecodable(lines[2]) /\ IsSent(lines[2])
    /\ log[3] = PrintEv("Sent", 2)
    /\ log[4] = FeedEv("Sent", <<>>)

\* C9: the log is one step per message read so far, in file order: the
\* print of the message's direction, then the feed of that direction with
\* the message's bytes.
C9_PrintThenFeedPerMessage ==
    mode = "decode" =>
        LET ms == Picked(IsMessage, pos)
        IN /\ Len(log) = 2 * Len(ms)
           /\ \A k \in 1..Len(ms) :
                  LET m == from_string(lines[ms[k]])[1]
                  IN /\ log[2 * k - 1].ev = "print"
                     /\ log[2 * k - 1].dir = m.dir
                     /\ log[2 * k] = FeedEv(m.dir, m.data)

\* C9 witness: Received, Sent, Received, each printed and then fed through
\* the feed of its own direction.
C9_Witness ==
    /\ mode = "decode" /\ pc = "done" /\ result = "ok"
    /\ Len(log) = 6
    /\ log[1].ev = "print" /\ log[2] = FeedEv("Received", <<OpBulkLoad, 1>>)
    /\ log[3].ev = "print" /\ log[4] = FeedEv("Sent", <<OpBulkLoad, 1, 2>>)
    /\ log[5].ev = "print" /\ log[6] = FeedEv("Received", <<>>)

\* C10: when gen_write fails for the model at catalog index failedAt, the
\* run has ended with an error, and the file of every earlier model holds
\* the text generated for it.
C10_EarlierFilesKept ==
    failedAt # 0 =>
        /\ pc = "done"
        /\ result = "err:gen_write"
        /\ \A k \in 1..(failedAt - 1) :
               gdisk[filename(Catalog[k])] = File(gen(Catalog[k]))

\* C10 witness: the third model fails after its file was truncated; the
\* first two files are in place.
C10_Witness ==
    /\ failedAt = 3
    /\ gdisk[filename(Catalog[3])] = File(<<>>)
    /\ gdisk[filename(Catalog[1])] = File(gen(Catalog[1]))
    /\ gdisk[filename(Catalog[2])] = File(gen(Catalog[2]))
    /\ gdisk[filename(Catalog[4])] = File(<<"old">>)

\* C11 (as the specification states it): after a failure for one model, the
\* file of every other model of the catalog, those after it included, is
\* written in the same run.
C11_OtherModelsStillWritten ==
    (failedAt # 0 /\ pc = "done") =>
        \A k \in 1..Len(Catalog) :
            k # failedAt => gdisk[filename(Catalog[k])] = File(gen(Catalog[k]))

\* C11 amended: a failure for the model at index failedAt ends the run
\* there: the models before it were written, and no model after it is
\* generated or written, its file staying as the run found it.
C11_FailureEndsRun ==
    failedAt # 0 =>
        /\ pc = "done"
        /\ idx = failedAt
        /\ Len(wrote) = failedAt - 1
        /\ \A k \in (failedAt + 1)..Len(Catalog) :
               /\ gdisk[filename(Catalog[k])] = gdiskInit[filename(Catalog[k])]
               /\ \A w \in 1..Len(wrote) : wrote[w] # Catalog[k]

\* C11 witness: the second model fails in a fresh directory; the first file
\* is written and the third is absent.
C11_Witness ==
    /\ failedAt = 2
    /\ gdisk[filename(Catalog[1])] = File(gen(Catalog[1]))
    /\ gdisk[filename(Catalog[3])] = Absent
    /\ gdisk[filename(Catalog[9])] = Absent
    /\ wrote = <<Catalog[1]>>

\* C12: the models are processed one after another in catalog order: at
\* every point of the run the models before the current one, and only they,
\* have been written, each once and completely, in catalog order, and no
\* later model has been started.
C12_OneModelAtATimeInOrder ==
    mode = "codegen" =>
        /\ idx \in 1..(Len(Catalog) + 1)
        /\ wrote = SubSeq(Catalog, 1, idx - 1)
        /\ \A a, b \in 1..Len(wrote) : a # b => wrote[a] # wrote[b]
        /\ \A k \in 1..(idx - 1) :
               gdisk[filename(Catalog[k])] = File(gen(Catalog[k]))
        /\ \A k \in (idx + 1)..Len(Catalog) :
               gdisk[filename(Catalog[k])] = gdiskInit[filename(Catalog[k])]
        /\ (failedAt = 0 /\ idx <= Len(Catalog))
               => gdisk[filename(Catalog[idx])] = gdiskInit[filename(Catalog[idx])]

\* C12 witness: three models written over old files, the fourth not yet
\* started.
C12_Witness ==
    /\ mode = "codegen" /\ pc = "gen"
    /\ idx = 4
    /\ wrote = <<"m2x4hd", "msharc4x8", "m4x10hd">>
    /\ gdisk[filename("m4x10hd")] = File(gen("m4x10hd"))
    /\ gdisk[filename("shd")] = File(<<"old">>)

\* The text the model's own inputs determine, computed apart from gen.
TextOf(T) ==
    <<"//", "// This file is generated by minidsp-devtools codegen. DO NOT EDIT.",
      "//">> \o generate_static_config(symbols(T), device(T))

\* C13: the content of every file written is the text fixed by that model's
\* own device and symbol table: the same whether the directory was empty or
\* held the files of an earlier run, and whichever models were written
\* before it.
C13_TextDependsOnModelOnly ==
    mode = "codegen" =>
        \A w \in 1..Len(wrote) :
            /\ gdisk[filename(wrote[w])].exists
            /\ gdisk[filename(wrote[w])].data = TextOf(wrote[w])

\* C13 witness: a run over the files of an earlier run has rewritten two of
\* them.
C13_Witness ==
    /\ mode = "codegen"
    /\ gdiskInit[filename("m2x4hd")] = File(<<"old">>)
    /\ Len(wrote) = 2
    /\ gdisk[filename("msharc4x8")].data = TextOf("msharc4x8")

\* C14: every file written is the disclaimer header, the same for every
\* model, directly followed by the serialization of that model's device and
\* symbol table.
C14_HeaderThenSerialization ==
    mode = "codegen" =>
        \A w \in 1..Len(wrote) :
            LET d == gdisk[filename(wrote[w])].data
                h == Len(DisclaimerHeader)
            IN /\ Len(d) >= h
               /\ SubSeq(d, 1, h) = DisclaimerHeader
               /\ SubSeq(d, h + 1, Len(d))
                      = generate_static_config(symbols(wrote[w]), device(wrote[w]))

\* C14 witness: a successful run; the first and the last file start with
\* the header.
C14_Witness ==
    /\ mode = "codegen" /\ pc = "done" /\ result = "ok"
    /\ SubSeq(gdisk[filename("m2x4hd")].data, 1, 3) = DisclaimerHeader
    /\ SubSeq(gdisk[filename("m10x10hd")].data, 1, 3) = DisclaimerHeader
    /\ Len(gdisk[filename("m10x10hd")].data) > 3

\* The reader has consumed the last line and holds no bytes of it.
AtEndOfFile ==
    /\ mode \in {"decode", "dump"}
    /\ pc \in {"dec_loop", "skip", "copy"}
    /\ pos = Len(lines)
    /\ chunk = <<>>

\* C15: every run ends; once the end of the session file is reached the
\* decode or dump run ends in success; and a run that ended in success has
\* consumed every line, each valid message having been delivered once.
C15_EndOfFileEndsInSuccess ==
    /\ <>(pc = "done")
    /\ AtEndOfFile ~> (pc = "done" /\ result = "ok")
    /\ []((mode \in {"decode", "dump"} /\ pc = "done" /\ result = "ok")
              => /\ pos = Len(lines)
                 /\ delivered = Picked(IsMessage, Len(lines)))

\* C15 witness: a dump of three lines, one of them unparsable, has ended in
\* success with the two messages delivered.
C15_Witness ==
    /\ mode = "dump" /\ pc = "done" /\ result = "ok"
    /\ pos = 3 /\ Len(lines) = 3
    /\ delivered = <<1, 3>>
    /\ ~IsMessage(lines[2])

\* C16: the decoder is constructed once; set_name_map runs once when a
\* device kind is forced and never otherwise, before anything is fed; from
\* the first feed on the symbol table is the one set then.
C16_NameMapSetOnceBeforeFeeding ==
    mode = "decode" =>
        /\ pc \in {"open", "dec_new"} =>
               /\ decoder = [news |-> 0, sets |-> 0, name_map |-> None]
               /\ log = <<>>
        /\ (pc = "dec_loop" \/ log # <<>> \/ (pc = "done" /\ result = "ok")) =>
               /\ decoder.news = 1
               /\ decoder.sets = IF force_kind = None THEN 0 ELSE 1
               /\ decoder.name_map =
                      IF force_kind = None THEN None
                      ELSE Some(by_kind_symbols(force_kind[1]))

\* C16 witness: a kind is forced, the name map was set once and two
\* messages were fed after it.
C16_Witness ==
    /\ mode = "decode" /\ pc = "done" /\ result = "ok"
    /\ force_kind = Some("m2x4hd")
    /\ decoder.news = 1 /\ decoder.sets = 1
    /\ decoder.name_map # None
    /\ Len(log) = 4

\* C17: the skip counts bytes of the concatenated stream: what is discarded
\* and what is written are fixed by the concatenation and the skip alone,
\* wherever the payload boundaries fall, empty payloads included.
C17_SkipCountsStreamBytes ==
    LET K == IF skip = NoSkip THEN 0 ELSE skip
    IN /\ (Created /\ pc = "skip") =>
              /\ Len(discarded) + limit = K
              /\ discarded = SubSeq(BulkStream, 1, Len(discarded))
       /\ DumpOk =>
              /\ discarded = SubSeq(BulkStream, 1, Min(K, Len(BulkStream)))
              /\ out.data = DropFirst(BulkStream, K)

\* C17 witness: an empty payload, then a skip of one byte that ends inside
\* the second payload, whose second byte is kept.
C17_Witness ==
    /\ DumpOk
    /\ skip = 1
    /\ contrib = <<1, 2, 3>>
    /\ PayloadOf(lines[1]) = <<>>
    /\ PayloadOf(lines[2]) = <<1, 2>>
    /\ discarded = <<1>>
    /\ out.data = <<2>> \o PayloadOf(lines[3])
    /\ PayloadOf(lines[3]) # <<>>

\* C18: a dump that fails to open its input has neither created nor
\* truncated the destination; a dump that fails to create the destination
\* has consumed no message and discarded or written no byte; and a dump
\* creates, truncates or writes no file but the destination.
C18_FailedOpenOrCreateTouchesNothing ==
    mode = "dump" =>
        /\ touched \subseteq {"output"}
        /\ pc \in {"open", "create"} => (out = outInit /\ touched = {} /\ pos = 0)
        /\ result = "err:open" => (out = outInit /\ touched = {} /\ pos = 0)
        /\ result = "err:create" =>
               /\ out = outInit /\ touched = {}
               /\ pos = 0 /\ delivered = <<>> /\ contrib = <<>>
               /\ discarded = <<>> /\ chunk = <<>>

\* C18 witness: the input of a dump cannot be opened; the destination still
\* holds what it held.
C18_Witness ==
    /\ mode = "dump" /\ pc = "done" /\ result = "err:open"
    /\ outInit = File(<<2, 1>>)
    /\ out = File(<<2, 1>>)
    /\ Len(lines) = 2

\* The order the claim names.
NineModels ==
    <<"m2x4hd", "msharc4x8", "m4x10hd", "shd", "ddrc24", "nanodigi2x8",
      "ddrc88bm", "c8x12v2", "m10x10hd">>

\* C19: the files are written in the order m2x4hd, msharc4x8, m4x10hd, shd,
\* ddrc24, nanodigi2x8, ddrc88bm, c8x12v2, m10x10hd; a successful run has
\* written all nine; a run that failed at the k-th has written the first
\* k-1 and no other; the file of m2x4 is never written.
C19_NineFilesInFixedOrder ==
    mode = "codegen" =>
        /\ Len(wrote) <= 9
        /\ wrote = SubSeq(NineModels, 1, Len(wrote))
        /\ (pc = "done" /\ result = "ok") => wrote = NineModels
        /\ failedAt # 0 => wrote = SubSeq(NineModels, 1, failedAt - 1)
        /\ gdisk[filename("m2x4")] = gdiskInit[filename("m2x4")]
        /\ \A T \in Targets :
               gdisk[filename(T)] = File(gen(T))
                   <=> \E w \in 1..Len(wrote) : wrote[w] = T

\* C19 witness: a successful run over old files: nine files written, the
\* file of m2x4 still the old one.
C19_Witness ==
    /\ mode = "codegen" /\ pc = "done" /\ result = "ok"
    /\ Len(wrote) = 9
    /\ wrote[9] = "m10x10hd"
    /\ gdisk[filename("m2x4")] = File(<<"old">>)
    /\ gdisk[filename("c8x12v2")] = File(gen("c8x12v2"))

====
